---- MODULE Spec2Model ----
(***************************************************************************)
(* Model of the drone-detection proof of concept:                          *)
(*   src/hackrf_sweep_classes.py  SignalStore and its _ringbuf             *)
(*   src/listen.py                analyze and its helpers                  *)
(*                                                                         *)
(* Four specifications share the variables:                                *)
(*   SpecRing     one _ringbuf, a writer calling add() and a reader        *)
(*                calling get_data_copy(), statement by statement          *)
(*   Spec         a SignalStore fed by add_measurements() calls            *)
(*   SpecAnalyze  analyze() applied to a warmed-up store                   *)
(*   SpecListen   handle_input(): lines ingested statement by statement,   *)
(*                and an analyze() process started at a rollover           *)
(***************************************************************************)
EXTENDS Integers, Sequences, FiniteSets, TLC

VARIABLES
    \* ---- one _ringbuf under concurrent use (SpecRing)
    rb,          \* the _ringbuf object: _size, _cursor, _data, _full
    lock,        \* holder of rb._lock: "free", "W" or "R"
    wpc,         \* position of the writer inside add()
    wval,        \* the value the writer is adding
    rpc,         \* position of the reader inside get_data_copy()
    rres,        \* what the reader's get_data_copy() returned
    added,       \* history: every value whose add() has begun, in order
    wdone,       \* history: number of add() calls that have returned
    rlo, rhi,    \* history: wdone and Len(added) when the reader copied
    rblocked,    \* history: the reader waited for the lock during an add
    \* ---- SignalStore (Spec, SpecAnalyze)
    store,           \* the SignalStore object: its fields _ranges, _BUFSIZE,
                     \* _bucket_width (<<>> is None, <<w>> is w), _warmed_up,
                     \* _warmup_measurement_count, _warmup_bucket_frequency,
                     \* _warmup_first_datetime, _warmup_resize_ringbufs
    skip_analysis,   \* store.config['skip_analysis']
    \* ---- history of the add_measurements() calls (Spec)
    calls,       \* number of add_measurements() calls made
    ingested,    \* number of measurements routed so far
    last_call,   \* the last call: its batch, outcome, and the store before it
    first_m,     \* <<m>>: the first measurement ever ingested, <<>> before
    calib_log,   \* the calls that ended while calibrating: batch, ref, epoch0
    warm_call,   \* index of the call that made the store warmed, 0 before
    resizes,     \* number of times _BUFSIZE was assigned after construction
    latest,      \* timestamp of the latest non-empty batch
    \* ---- one analyze() invocation (SpecAnalyze)
    analysis,    \* how analyze(signal_store) ended, with its locals
    \* ---- handle_input and the process it starts (SpecListen)
    last_datetime,   \* handle_input's local: <<>> is None, <<t>> is t
    ingest,          \* the line being ingested: position inside
                     \* add_measurements, hsl.datetime, tmpkeys still to
                     \* delete, measurements still to route
    child,           \* the analyze() process followed: position, its copy of
                     \* the store, the keys its loop has yet to visit, the
                     \* dict size when the loop began, the copy built so far
    launch_log       \* history: per line, its timestamp, whether the store
                     \* was warmed after it, and the processes it started

ringvars == <<rb, lock, wpc, wval, rpc, rres, added, wdone, rlo, rhi, rblocked>>
storevars == <<store, skip_analysis>>
histvars == <<calls, ingested, last_call, first_m, calib_log, warm_call, resizes,
              latest>>
listenvars == <<last_datetime, ingest, child, launch_log>>
vars == <<ringvars, storevars, histvars, analysis, listenvars>>

----------------------------------------------------------------------------
(* Bounds of the model *)

MaxSize == 3      \* largest ring capacity tried in SpecRing
MaxAdds == 5      \* add() calls per behaviour of SpecRing
MaxVal == 2       \* values added in SpecRing are 1..MaxVal

Min(a, b) == IF a < b THEN a ELSE b

\* the last n elements of s, in order
LastN(s, n) == SubSeq(s, Len(s) - Min(Len(s), n) + 1, Len(s))

----------------------------------------------------------------------------
(* SignalStore._ringbuf *)

\* _ringbuf.__init__ (the lock is the variable `lock` where it matters)
ringbuf(size) == [size |-> size, cursor |-> 0, data |-> <<>>, full |-> FALSE]

\* self._data[self._cursor] = val
WriteSlot(b, val) == [b EXCEPT !.data[b.cursor + 1] = val]

\* self._cursor = (self._cursor + 1) % len(self._data)
AdvanceCursor(b) == [b EXCEPT !.cursor = (b.cursor + 1) % Len(b.data)]

\* self._data.append(val)
AppendVal(b, val) == [b EXCEPT !.data = Append(@, val)]

\* if len(self._data) >= self._size: self._full = True
MarkFull(b) == IF Len(b.data) >= b.size THEN [b EXCEPT !.full = TRUE] ELSE b

\* _ringbuf.add, the whole critical section
add(b, val) ==
    IF b.full THEN AdvanceCursor(WriteSlot(b, val))
    ELSE MarkFull(AppendVal(b, val))

get_data_copy_unrotated(b) == b.data

\* _ringbuf.get_data_copy, the whole critical section
get_data_copy(b) ==
    IF b.full
    THEN SubSeq(b.data, b.cursor + 1, Len(b.data)) \o SubSeq(b.data, 1, b.cursor)
    ELSE b.data

LockAcquireNoWait(who) == lock' = who

\* with self._lock: entry (blocks until the lock is free)
LockAcquire(who) == lock = "free" /\ lock' = who

\* with self._lock: exit
LockRelease == lock' = "free"

----------------------------------------------------------------------------
(* SignalStore.add_measurements *)

\* a dict with no keys
EmptyMap == [k \in {} |-> 0]

\* class Measurement
Measurement(datetime, hz_low, hz_high, db) ==
    [datetime |-> datetime, hz_low |-> hz_low, hz_high |-> hz_high, db |-> db]

\* timedelta(seconds=1), with timestamps counted in whole seconds
one_second == 1

\* Python truth of an int
Truthy(x) == x # 0

\* Python truth of self._bucket_width (None, or an int)
WidthKnown(bw) == bw # <<>> /\ Truthy(bw[1])

\* the fields of a SignalStore as one value
Store(r, size, bw, warmed, count, freq, first, resize) ==
    [ranges |-> r, BUFSIZE |-> size, bucket_width |-> bw, warmed_up |-> warmed,
     warmup_measurement_count |-> count, warmup_bucket_frequency |-> freq,
     warmup_first_datetime |-> first, warmup_resize_ringbufs |-> resize]

NoteBucketWidthAlways(s, measurements) ==
    [s EXCEPT !.bucket_width =
        <<measurements[1].hz_high - measurements[1].hz_low>>]

\* if not self._bucket_width: note the width of measurements[0]
NoteBucketWidth(s, measurements) ==
    IF ~WidthKnown(s.bucket_width)
    THEN [s EXCEPT !.bucket_width =
            <<measurements[1].hz_high - measurements[1].hz_low>>]
    ELSE s

\* if not self._warmup_bucket_frequency: pick the bucket timing the warmup
PickWarmupBucket(s, measurements) ==
    IF ~Truthy(s.warmup_bucket_frequency)
    THEN [s EXCEPT !.warmup_bucket_frequency = measurements[1].hz_low,
                   !.warmup_first_datetime = measurements[1].datetime]
    ELSE s

\* whether measurements[0] is read, which raises IndexError on an empty list
ReadsFirst(s) ==
    ~WidthKnown(s.bucket_width) \/ ~Truthy(s.warmup_bucket_frequency)

WarmedAfterResizeForgotten == FALSE

\* self._warmed_up = True, ending the resize
WarmedAfterResize == TRUE

\* if not self.is_warmed_up() and self._warmup_resize_ringbufs
ResizeDue(s) == ~s.warmed_up /\ s.warmup_resize_ringbufs

\* the resize with the old ring buffers left in place
CompleteWarmupKeepingBuffers(s) ==
    IF ResizeDue(s)
    THEN [s EXCEPT !.warmup_resize_ringbufs = FALSE,
                   !.BUFSIZE = s.warmup_measurement_count,
                   !.warmed_up = WarmedAfterResize]
    ELSE s

\* check for resize signal & complete warmup process
CompleteWarmup(s) ==
    IF ResizeDue(s)
    THEN [s EXCEPT !.warmup_resize_ringbufs = FALSE,
                   !.BUFSIZE = s.warmup_measurement_count,
                   !.ranges = EmptyMap,
                   !.warmed_up = WarmedAfterResize]
    ELSE s

CountsForWarmupUntilSignal(s, m) ==
    /\ ~s.warmed_up
    /\ ~s.warmup_resize_ringbufs
    /\ s.warmup_bucket_frequency = m.hz_low

\* if not self.is_warmed_up() and self._warmup_bucket_frequency == m.hz_low
CountsForWarmup(s, m) ==
    ~s.warmed_up /\ s.warmup_bucket_frequency = m.hz_low

\* if m.datetime - self._warmup_first_datetime > one_second
SecondElapsed(s, m) == m.datetime - s.warmup_first_datetime > one_second

\* the warmup logic of the loop body
WarmupStep(s, m) ==
    IF CountsForWarmup(s, m)
    THEN [s EXCEPT !.warmup_measurement_count = @ + 1,
                   !.warmup_resize_ringbufs = @ \/ SecondElapsed(s, m)]
    ELSE s

\* self._ranges[m.hz_low].add(m), making the ringbuf on KeyError
Route(s, m) ==
    LET r == s.ranges
        b == IF m.hz_low \in DOMAIN r THEN r[m.hz_low] ELSE ringbuf(s.BUFSIZE)
    IN  [s EXCEPT !.ranges =
            [k \in DOMAIN r \cup {m.hz_low} |->
                IF k = m.hz_low THEN add(b, m) ELSE r[k]]]

\* for m in measurements: ...
RECURSIVE RouteAll(_, _)
RouteAll(s, measurements) ==
    IF measurements = <<>> THEN s
    ELSE RouteAll(Route(WarmupStep(s, measurements[1]), measurements[1]),
                  Tail(measurements))

\* add_measurements with the resize block moved behind the routing loop
add_measurements_resize_last(s, measurements) ==
    IF measurements = <<>> /\ ReadsFirst(s)
    THEN [outcome |-> "IndexError", store |-> s]
    ELSE [outcome |-> "ok",
          store |-> CompleteWarmup(
              RouteAll(
                  PickWarmupBucket(NoteBucketWidth(s, measurements),
                                   measurements),
                  measurements))]

\* the store as add_measurements leaves it, and how the call ended
add_measurements(s, measurements) ==
    IF measurements = <<>> /\ ReadsFirst(s)
    THEN [outcome |-> "IndexError", store |-> s]
    ELSE [outcome |-> "ok",
          store |-> RouteAll(
              CompleteWarmup(
                  PickWarmupBucket(NoteBucketWidth(s, measurements),
                                   measurements)),
              measurements)]

\* get_bucket_width
get_bucket_width(s) ==
    IF WidthKnown(s.bucket_width)
    THEN [outcome |-> "ok", value |-> s.bucket_width[1]]
    ELSE [outcome |-> "Exception", value |-> 0]

\* is_warmed_up
is_warmed_up(s) == s.warmed_up

\* get_measurements_copy
get_measurements_copy(s) ==
    [k \in DOMAIN s.ranges |-> get_data_copy(s.ranges[k])]

----------------------------------------------------------------------------
(* listen.py: analyze and its helpers *)

\* a Python float that is a quotient of ints, kept exact as num/den (den > 0)
Rat(num, den) == [num |-> num, den |-> den]
RatLess(a, b) == a.num * b.den < b.num * a.den
RatEq(a, b) == a.num * b.den = b.num * a.den
RatAdd(a, b) == Rat(a.num * b.den + b.num * a.den, a.den * b.den)
RatPlusInt(a, n) == Rat(a.num + n * a.den, a.den)
RatOverInt(a, n) == Rat(a.num, a.den * n)

\* sum( [ m.db for m in ms ] )
RECURSIVE SumDb(_)
SumDb(ms) == IF ms = <<>> THEN 0 ELSE ms[1].db + SumDb(Tail(ms))

\* sum( sorted_dbs[:quarter_len] )
RECURSIVE SumRat(_)
SumRat(xs) == IF xs = <<>> THEN Rat(0, 1) ELSE RatAdd(xs[1], SumRat(Tail(xs)))

\* sorted(d.keys()) for int keys: the elements of S, ascending
RECURSIVE SortedKeys(_)
SortedKeys(S) ==
    IF S = {} THEN <<>>
    ELSE LET lo == CHOOSE x \in S : \A y \in S : x <= y
         IN  <<lo>> \o SortedKeys(S \ {lo})

\* one step of sorted(): x put into the ascending list xs
RECURSIVE InsertSorted(_, _)
InsertSorted(x, xs) ==
    IF xs = <<>> THEN <<x>>
    ELSE IF RatLess(xs[1], x) THEN <<xs[1]>> \o InsertSorted(x, Tail(xs))
    ELSE <<x>> \o xs

\* sorted(average_bucket_strengths.values())
RECURSIVE SortedValues(_, _)
SortedValues(averages, keys) ==
    IF keys = <<>> THEN <<>>
    ELSE InsertSorted(averages[keys[1]], SortedValues(averages, Tail(keys)))

\* the sum of all the averages over quarter_len, not of the weakest quarter
compute_noise_floor_of_all(average_bucket_strengths) ==
    LET sorted_dbs == SortedValues(average_bucket_strengths,
                                   SortedKeys(DOMAIN average_bucket_strengths))
        quarter_len == Len(sorted_dbs) \div 4
    IN  IF quarter_len = 0
        THEN [raised |-> "ZeroDivisionError", value |-> Rat(0, 1)]
        ELSE [raised |-> "",
              value |-> RatOverInt(SumRat(sorted_dbs), quarter_len)]

\* compute_noise_floor: the mean of the weakest quarter of the averages
compute_noise_floor(average_bucket_strengths) ==
    LET sorted_dbs == SortedValues(average_bucket_strengths,
                                   SortedKeys(DOMAIN average_bucket_strengths))
        quarter_len == Len(sorted_dbs) \div 4
    IN  IF quarter_len = 0
        THEN [raised |-> "ZeroDivisionError", value |-> Rat(0, 1)]
        ELSE [raised |-> "",
              value |-> RatOverInt(SumRat(SubSeq(sorted_dbs, 1, quarter_len)),
                                   quarter_len)]

\* dB above the noise floor at which a bucket counts as a signal
SQUELCH == 3

\* find_signal_buckets: the keys above noise_floor + SQUELCH, ascending
RECURSIVE SignalKeys(_, _, _)
SignalKeys(averages, noise_floor, keys) ==
    IF keys = <<>> THEN <<>>
    ELSE (IF RatLess(RatPlusInt(noise_floor, SQUELCH), averages[keys[1]])
          THEN <<keys[1]>> ELSE <<>>)
         \o SignalKeys(averages, noise_floor, Tail(keys))

find_signal_buckets(average_bucket_strengths, noise_floor) ==
    LET has_signal == SignalKeys(average_bucket_strengths, noise_floor,
                                 SortedKeys(DOMAIN average_bucket_strengths))
    IN  [has_signal |-> has_signal,
         signal_strengths |->
            [i \in DOMAIN has_signal |-> average_bucket_strengths[has_signal[i]]]]

\* signal_ranges[i] of Python, for i the 0-based index
At(signal_ranges, i) == signal_ranges[i + 1]
InRange(signal_ranges, i) == 0 <= i /\ i < Len(signal_ranges)

MergeEngagesFromTwo(signal_ranges) == Len(signal_ranges) >= 2

\* if len(signal_ranges) > 2
MergeEngages(signal_ranges) == Len(signal_ranges) > 2

\* the loops stop one index later: if i >= len(signal_ranges)
PastLastIndex(signal_ranges, i) == i >= Len(signal_ranges)

\* if i >= len(signal_ranges) - 1: break
AtLastIndex(signal_ranges, i) == i >= Len(signal_ranges) - 1

\* the loop "while signal_ranges[i][1] == signal_ranges[i+1][0]", entered
\* with index i and region end `end`: where it leaves them, or IndexError
RECURSIVE ExtendRegion(_, _, _)
ExtendRegion(signal_ranges, i, end) ==
    IF ~InRange(signal_ranges, i) \/ ~InRange(signal_ranges, i + 1)
    THEN [raised |-> "IndexError", i |-> i, end |-> end]
    ELSE IF At(signal_ranges, i)[2] = At(signal_ranges, i + 1)[1]
    THEN IF AtLastIndex(signal_ranges, i + 1)
         THEN [raised |-> "", i |-> i + 1, end |-> At(signal_ranges, i + 1)[1]]
         ELSE ExtendRegion(signal_ranges, i + 1, At(signal_ranges, i + 1)[1])
    ELSE [raised |-> "", i |-> i, end |-> end]

\* the loop "while True" of get_contiguous_regions, entered with index i
RECURSIVE CollectRegions(_, _, _)
CollectRegions(signal_ranges, i, contiguous_regions) ==
    IF ~InRange(signal_ranges, i)
    THEN [raised |-> "IndexError", regions |-> contiguous_regions]
    ELSE
    LET start == At(signal_ranges, i)[1]
        x == ExtendRegion(signal_ranges, i, At(signal_ranges, i)[2])
        regions == Append(contiguous_regions, <<start, x.end>>)
    IN  IF x.raised # "" THEN [raised |-> x.raised, regions |-> contiguous_regions]
        ELSE IF AtLastIndex(signal_ranges, x.i + 1)
        THEN [raised |-> "", regions |-> regions]
        ELSE CollectRegions(signal_ranges, x.i + 1, regions)

\* get_contiguous_regions
get_contiguous_regions(width, bucket_ranges, has_signal, signal_strengths) ==
    LET signal_ranges == [i \in DOMAIN has_signal |-> bucket_ranges[has_signal[i]]]
    IN  IF MergeEngages(signal_ranges)
        THEN CollectRegions(signal_ranges, 0, <<>>)
        ELSE [raised |-> "", regions |-> <<>>]

\* BANDWIDTH_THRESHOLD = 10000 # 10MHz
BANDWIDTH_THRESHOLD == 10000

\* the regions wider than limit, in order
RECURSIVE SelectRegions(_, _)
SelectRegions(regions, limit) ==
    IF regions = <<>> THEN <<>>
    ELSE (IF regions[1][2] - regions[1][1] > limit THEN <<regions[1]>> ELSE <<>>)
         \o SelectRegions(Tail(regions), limit)

\* get_drone_regions
get_drone_regions(contiguous_signal_regions) ==
    SelectRegions(contiguous_signal_regions, BANDWIDTH_THRESHOLD)

\* what analyze leaves behind when an exception propagates out of it
Raised(exception) ==
    [outcome |-> "raised", exception |-> exception, noise_floor |-> Rat(0, 1),
     has_signal |-> <<>>, signal_strengths |-> <<>>, contiguous_regions |-> <<>>,
     drone_regions |-> <<>>, drone_detected |-> FALSE]

\* analyze has not run
NoAnalysis == [Raised("") EXCEPT !.outcome = "pending"]

\* analyze returned at "skipping analysis..."
Skipped == [Raised("") EXCEPT !.outcome = "skipped"]

\* analyze(signal_store): its locals at the final print, or how it ended
analyze(s, skip) ==
    IF skip THEN Skipped
    ELSE
    LET measurements == get_measurements_copy(s)
        withdata == { f \in DOMAIN measurements : Len(measurements[f]) # 0 }
        averages == [f \in withdata |->
                        Rat(SumDb(measurements[f]), Len(measurements[f]))]
        floor == compute_noise_floor(averages)
        found == find_signal_buckets(averages, floor.value)
        width == get_bucket_width(s)
        bucket_ranges == [f \in withdata |-> <<f, f + width.value>>]
        merged == get_contiguous_regions(width.value, bucket_ranges,
                                         found.has_signal, found.signal_strengths)
        drone_regions == get_drone_regions(merged.regions)
    IN  IF floor.raised # "" THEN Raised(floor.raised)
        ELSE IF width.outcome # "ok" THEN Raised(width.outcome)
        ELSE IF merged.raised # "" THEN Raised(merged.raised)
        ELSE [outcome |-> "ok", exception |-> "", noise_floor |-> floor.value,
              has_signal |-> found.has_signal,
              signal_strengths |-> found.signal_strengths,
              contiguous_regions |-> merged.regions,
              drone_regions |-> drone_regions,
              drone_detected |-> drone_regions # <<>>]

----------------------------------------------------------------------------
(* State after construction *)

\* SignalStore.__init__
StoreInit == store = Store(EmptyMap, 200, <<>>, FALSE, 0, 0, 0, FALSE)

HistInit ==
    /\ calls = 0
    /\ ingested = 0
    /\ last_call = [batch |-> <<>>, outcome |-> "none", before |-> store]
    /\ first_m = <<>>
    /\ calib_log = <<>>
    /\ warm_call = 0
    /\ resizes = 0
    /\ latest = 0

RingIdle ==
    /\ lock = "free"
    /\ wpc = "idle"
    /\ wval = 0
    /\ rpc = "idle"
    /\ rres = <<>>
    /\ added = <<>>
    /\ wdone = 0
    /\ rlo = 0
    /\ rhi = 0
    /\ rblocked = FALSE

\* handle_input is between lines
NoCall == [pc |-> "idle", datetime |-> 0, tmpkeys |-> {}, rest |-> <<>>]

\* no analyze() process is followed
NoChild ==
    [pc |-> "none", line |-> 0,
     copy |-> Store(EmptyMap, 200, <<>>, FALSE, 0, 0, 0, FALSE),
     keys |-> {}, size |-> 0, result |-> EmptyMap, outcome |-> ""]

\* handle_input before its first line
ListenIdle ==
    /\ last_datetime = <<>>
    /\ ingest = NoCall
    /\ child = NoChild
    /\ launch_log = <<>>

----------------------------------------------------------------------------
(* SpecRing: one writer in add(), one reader in get_data_copy() *)

RingInit ==
    /\ \E n \in 1..MaxSize : rb = ringbuf(n)
    /\ RingIdle
    /\ StoreInit
    /\ skip_analysis = FALSE
    /\ HistInit
    /\ analysis = NoAnalysis
    /\ ListenIdle

RingFrame == UNCHANGED <<storevars, histvars, analysis, listenvars>>

\* the reader is waiting in "with self._lock" while an add is half done
ReaderWaits == rblocked \/ rpc = "acquire"

\* add(val): enter the critical section and test self._full
WEnter ==
    /\ wpc = "idle"
    /\ Len(added) < MaxAdds
    /\ \E v \in 1..MaxVal :
        /\ wval' = v
        /\ added' = Append(added, v)
    /\ LockAcquire("W")
    /\ wpc' = IF rb.full THEN "overwrite" ELSE "append"
    /\ UNCHANGED <<rb, rpc, rres, wdone, rlo, rhi, rblocked>>
    /\ RingFrame

WOverwrite ==
    /\ wpc = "overwrite"
    /\ rb' = WriteSlot(rb, wval)
    /\ wpc' = "advance"
    /\ rblocked' = ReaderWaits
    /\ UNCHANGED <<lock, wval, rpc, rres, added, wdone, rlo, rhi>>
    /\ RingFrame

WAdvance ==
    /\ wpc = "advance"
    /\ rb' = AdvanceCursor(rb)
    /\ wpc' = "release"
    /\ UNCHANGED <<lock, wval, rpc, rres, added, wdone, rlo, rhi, rblocked>>
    /\ RingFrame

WAppend ==
    /\ wpc = "append"
    /\ rb' = AppendVal(rb, wval)
    /\ wpc' = "markfull"
    /\ rblocked' = ReaderWaits
    /\ UNCHANGED <<lock, wval, rpc, rres, added, wdone, rlo, rhi>>
    /\ RingFrame

WMarkFull ==
    /\ wpc = "markfull"
    /\ rb' = MarkFull(rb)
    /\ wpc' = "release"
    /\ UNCHANGED <<lock, wval, rpc, rres, added, wdone, rlo, rhi, rblocked>>
    /\ RingFrame

WLeave ==
    /\ wpc = "release"
    /\ LockRelease
    /\ wpc' = "idle"
    /\ wdone' = wdone + 1
    /\ UNCHANGED <<rb, wval, rpc, rres, added, rlo, rhi, rblocked>>
    /\ RingFrame

\* get_data_copy() is called
RCall ==
    /\ rpc = "idle"
    /\ rpc' = "acquire"
    /\ rblocked' = FALSE
    /\ UNCHANGED <<rb, lock, wpc, wval, rres, added, wdone, rlo, rhi>>
    /\ RingFrame

REnter ==
    /\ rpc = "acquire"
    /\ LockAcquire("R")
    /\ rpc' = "copy"
    /\ UNCHANGED <<rb, wpc, wval, rres, added, wdone, rlo, rhi, rblocked>>
    /\ RingFrame

RCopy ==
    /\ rpc = "copy"
    /\ rres' = get_data_copy(rb)
    /\ rlo' = wdone
    /\ rhi' = Len(added)
    /\ rpc' = "release"
    /\ UNCHANGED <<rb, lock, wpc, wval, added, wdone, rblocked>>
    /\ RingFrame

RLeave ==
    /\ rpc = "release"
    /\ LockRelease
    /\ rpc' = "idle"
    /\ UNCHANGED <<rb, wpc, wval, rres, added, wdone, rlo, rhi, rblocked>>
    /\ RingFrame

RingNext ==
    \/ WEnter \/ WOverwrite \/ WAdvance \/ WAppend \/ WMarkFull \/ WLeave
    \/ RCall \/ REnter \/ RCopy \/ RLeave

SpecRing == RingInit /\ [][RingNext]_vars

----------------------------------------------------------------------------
(* Claims about the ring buffer *)

\* C1: after k add() calls on a ring of capacity N >= 1, get_data_copy()
\* returns exactly min(k, N) elements: the last min(k, N) values added,
\* oldest first, also after the write cursor has wrapped around.
C1_SnapshotIsLastN ==
    wpc = "idle" =>
        /\ get_data_copy(rb) = LastN(added, rb.size)
        /\ Len(get_data_copy(rb)) = Min(Len(added), rb.size)

\* the cursor has gone round a ring of capacity >= 2 more than once
C1_Witness ==
    /\ wpc = "idle"
    /\ rb.size >= 2
    /\ Len(added) > 2 * rb.size
    /\ rb.cursor # 0

\* C9: a get_data_copy() concurrent with add() returns the chronological
\* contents as they were entirely before or entirely after each add: the
\* last N of the values of the adds that had returned when it copied, or of
\* those plus the add in progress; never a half-done add.
C9_CopyIsAtomic ==
    rpc = "release" =>
        \E j \in rlo..rhi : rres = LastN(SubSeq(added, 1, j), rb.size)

\* the reader asked for the lock while an add on a full ring was half done,
\* then copied
C9_Witness ==
    /\ rpc = "release"
    /\ rblocked
    /\ rb.full
    /\ Len(added) > rb.size

----------------------------------------------------------------------------
(* Spec: a SignalStore fed by add_measurements() calls *)

MaxBatch == 2     \* longest batch given to add_measurements
MaxCalls == 4     \* add_measurements calls per behaviour
MaxTotal == 4     \* measurements ingested per behaviour

StoreKeys == {0, 1}
StoreTimes == {0, 1, 2}
StoreWidths == {1, 2}

\* HackSweepLine.to_measurements: the measurements of one line share its
\* timestamp and its bin width
LineMeasurements(t, w, keys) ==
    [i \in DOMAIN keys |-> Measurement(t, keys[i], keys[i] + w, -60)]

KeyLists == UNION { [1..n -> StoreKeys] : n \in 0..MaxBatch }

Init ==
    /\ StoreInit
    /\ skip_analysis = FALSE
    /\ HistInit
    /\ rb = ringbuf(1)
    /\ RingIdle
    /\ analysis = NoAnalysis
    /\ ListenIdle

\* store.add_measurements(batch)
AddMeasurements(batch) ==
    LET ok == ~(batch = <<>> /\ ReadsFirst(store))
        picked == PickWarmupBucket(store, batch)
    IN
    /\ calls < MaxCalls
    /\ ingested + Len(batch) <= MaxTotal
    /\ store' = add_measurements(store, batch).store
    /\ calls' = calls + 1
    /\ ingested' = IF ok THEN ingested + Len(batch) ELSE ingested
    /\ last_call' = [batch |-> batch,
                     outcome |-> IF ok THEN "ok" ELSE "IndexError",
                     before |-> store]
    /\ first_m' = IF first_m = <<>> /\ ok /\ batch # <<>>
                  THEN <<batch[1]>> ELSE first_m
    /\ calib_log' =
          IF ok /\ ~store.warmed_up /\ ~ResizeDue(store)
          THEN Append(calib_log,
                      [batch |-> batch,
                       ref |-> picked.warmup_bucket_frequency,
                       epoch0 |-> picked.warmup_first_datetime])
          ELSE calib_log
    /\ warm_call' = IF ~store.warmed_up /\ store'.warmed_up
                    THEN calls + 1 ELSE warm_call
    /\ resizes' = IF ok /\ ResizeDue(store) THEN resizes + 1 ELSE resizes
    /\ UNCHANGED <<ringvars, skip_analysis, analysis, listenvars>>

\* the lines arrive in the order of their timestamps
Next ==
    \E t \in StoreTimes, w \in StoreWidths, keys \in KeyLists :
        /\ t >= latest
        /\ latest' = (IF keys = <<>> THEN latest ELSE t)
        /\ AddMeasurements(LineMeasurements(t, w, keys))

Spec == Init /\ [][Next]_vars

----------------------------------------------------------------------------
(* Claims about the store *)

\* C3: over any sequence of add_measurements calls, once is_warmed_up() is
\* true it stays true, _BUFSIZE is assigned at most once and only in the step
\* that makes the store warmed, and no call after that step discards buffers.
C3_WarmupOnce ==
    [][ /\ store.warmed_up => store'.warmed_up
        /\ store'.BUFSIZE # store.BUFSIZE => ~store.warmed_up /\ store'.warmed_up
        /\ resizes' # resizes => ~store.warmed_up /\ store'.warmed_up /\ resizes' = 1
        /\ store.warmed_up => DOMAIN store.ranges \subseteq DOMAIN store'.ranges ]_vars

\* a batch was routed by a call later than the one that warmed the store
C3_Witness ==
    /\ store.warmed_up
    /\ calls > warm_call
    /\ last_call.outcome = "ok"
    /\ last_call.batch # <<>>

\* number of measurements of a batch from the bucket ref
RECURSIVE CountKey(_, _)
CountKey(batch, ref) ==
    IF batch = <<>> THEN 0
    ELSE (IF batch[1].hz_low = ref THEN 1 ELSE 0) + CountKey(Tail(batch), ref)

\* position in the batch of the first measurement of bucket ref taken more
\* than one second after epoch0; 0 when there is none
FirstElapsed(e) ==
    LET hit == { i \in DOMAIN e.batch :
                    /\ e.batch[i].hz_low = e.ref
                    /\ e.batch[i].datetime - e.epoch0 > one_second }
    IN  IF hit = {} THEN 0 ELSE CHOOSE i \in hit : \A j \in hit : i <= j

\* reference measurements of all the calls logged, whole batches
RECURSIVE CountWholeCalls(_)
CountWholeCalls(log) ==
    IF log = <<>> THEN 0
    ELSE CountKey(log[1].batch, log[1].ref) + CountWholeCalls(Tail(log))

\* reference measurements up to and including the first one taken more than
\* one second after epoch0
RECURSIVE CountUntilElapsed(_)
CountUntilElapsed(log) ==
    IF log = <<>> THEN 0
    ELSE IF FirstElapsed(log[1]) # 0
         THEN CountKey(SubSeq(log[1].batch, 1, FirstElapsed(log[1])), log[1].ref)
         ELSE CountKey(log[1].batch, log[1].ref) + CountUntilElapsed(Tail(log))

\* C4 as amended: once warmed, every ring buffer's capacity is the number of
\* measurements counted for the reference bucket in all the calls up to and
\* including the whole call in which a reference measurement was first taken
\* more than one second after epoch0 (the rest of that batch included).
C4_CapacityCountsWholeCalls ==
    store.warmed_up =>
        /\ store.BUFSIZE = CountWholeCalls(calib_log)
        /\ \A k \in DOMAIN store.ranges : store.ranges[k].size = CountWholeCalls(calib_log)
        /\ \A i \in DOMAIN calib_log :
              (FirstElapsed(calib_log[i]) # 0) <=> (i = Len(calib_log))

\* warmed by a batch that holds the reference bucket again after the
\* measurement that raised the resize signal; buffers made since
C4_Witness ==
    /\ store.warmed_up
    /\ DOMAIN store.ranges # {}
    /\ LET e == calib_log[Len(calib_log)]
       IN  CountKey(e.batch, e.ref) > CountKey(SubSeq(e.batch, 1, FirstElapsed(e)), e.ref)

\* C4 as stated: the capacity is the number of reference measurements
\* ingested until the first one taken more than one second after epoch0
\* (that one counted or not)
C4_CapacityCountsUntilSignal ==
    store.warmed_up =>
        \A k \in DOMAIN store.ranges :
            \/ store.ranges[k].size = CountUntilElapsed(calib_log)
            \/ store.ranges[k].size = CountUntilElapsed(calib_log) - 1

\* C5: add_measurements([]) fails and leaves the store as it was, in every
\* state of the store.
C5_EmptyBatchRejected ==
    (last_call.outcome # "none" /\ last_call.batch = <<>>) =>
        /\ last_call.outcome # "ok"
        /\ store = last_call.before

\* C10: get_bucket_width raises exactly while nothing has been ingested;
\* afterwards it returns hz_high - hz_low of the first measurement ever
\* ingested, whatever the widths of the measurements ingested later.
C10_BucketWidthFixed ==
    LET w == get_bucket_width(store) IN
    /\ (first_m = <<>>) <=> (w.outcome = "Exception")
    /\ first_m # <<>> =>
          /\ w.outcome = "ok"
          /\ w.value = first_m[1].hz_high - first_m[1].hz_low

\* a later batch whose measurements have another width was ingested
C10_Witness ==
    /\ first_m # <<>>
    /\ calls >= 2
    /\ last_call.outcome = "ok"
    /\ last_call.batch # <<>>
    /\ last_call.batch[1].hz_high - last_call.batch[1].hz_low
          # first_m[1].hz_high - first_m[1].hz_low

\* the measurements of a batch that belong to the bucket k, in order
RECURSIVE SubBatch(_, _)
SubBatch(batch, k) ==
    IF batch = <<>> THEN <<>>
    ELSE (IF batch[1].hz_low = k THEN <<batch[1]>> ELSE <<>>)
         \o SubBatch(Tail(batch), k)

\* the bucket keys of a batch
BatchKeys(batch) == { batch[i].hz_low : i \in DOMAIN batch }

\* what the bucket k held in the store s, oldest first
Held(s, k) == IF k \in DOMAIN s.ranges THEN get_data_copy(s.ranges[k]) ELSE <<>>

\* the last call returned, and began while calibrating with no resize pending
CalibratingCall ==
    /\ last_call.outcome = "ok"
    /\ ~last_call.before.warmed_up
    /\ ~last_call.before.warmup_resize_ringbufs

\* the last call returned, and began with the resize pending
ResizingCall == last_call.outcome = "ok" /\ ResizeDue(last_call.before)

\* the last batch holds a measurement of the reference bucket taken more
\* than one second after epoch0, both as they stand after the call
ElapsedInLastCall ==
    \E i \in DOMAIN last_call.batch :
        /\ last_call.batch[i].hz_low = store.warmup_bucket_frequency
        /\ last_call.batch[i].datetime - store.warmup_first_datetime > one_second

\* C13: the call in which a reference measurement is first more than one
\* second past epoch0 only raises the resize signal: it ends calibrating, at
\* the old capacity, with its whole batch appended to the buffers it found.
\* The next call that returns clears the signal, sets the capacity to the
\* count, is warmed, and leaves buffers only for the keys of its own batch,
\* each of the new capacity and holding only that batch.
C13_ResizeDeferredThenFirst ==
    LET b == last_call.before
        batch == last_call.batch
    IN  /\ CalibratingCall =>
              /\ store.warmup_resize_ringbufs = ElapsedInLastCall
              /\ ~store.warmed_up
              /\ store.BUFSIZE = b.BUFSIZE
              /\ DOMAIN store.ranges = DOMAIN b.ranges \cup BatchKeys(batch)
              /\ \A k \in DOMAIN store.ranges :
                    /\ store.ranges[k].size = b.BUFSIZE
                    /\ Held(store, k) = Held(b, k) \o SubBatch(batch, k)
        /\ ResizingCall =>
              /\ store.warmed_up
              /\ ~store.warmup_resize_ringbufs
              /\ store.BUFSIZE = b.warmup_measurement_count
              /\ DOMAIN store.ranges = BatchKeys(batch)
              /\ \A k \in DOMAIN store.ranges :
                    /\ store.ranges[k].size = b.warmup_measurement_count
                    /\ Held(store, k)
                          = LastN(SubBatch(batch, k), b.warmup_measurement_count)

\* the call that resized found buffers of two buckets and was given a batch
\* of one other bucket only
C13_Witness ==
    /\ ResizingCall
    /\ Cardinality(DOMAIN last_call.before.ranges) = 2
    /\ last_call.batch # <<>>
    /\ DOMAIN store.ranges # {}
    /\ DOMAIN store.ranges \subseteq DOMAIN last_call.before.ranges
    /\ DOMAIN store.ranges # DOMAIN last_call.before.ranges

\* C14: once a measurement has been ingested, the reference bucket key is
\* the low_hz of the first measurement ever ingested and epoch0 is its
\* timestamp, whatever that low_hz is, after every later call too.
C14_ReferenceChosenOnce ==
    first_m # <<>> =>
        /\ store.warmup_bucket_frequency = first_m[1].hz_low
        /\ store.warmup_first_datetime = first_m[1].datetime

\* C15: between calls every ring buffer has the store's capacity, which is
\* the initial 200 while calibrating and the calibration count once warmed;
\* a call drops bucket keys only when it is the one resize, and then the
\* buffers it leaves are those of its own batch.
C15_OneCapacityKeysKept ==
    /\ [](/\ \A k \in DOMAIN store.ranges : store.ranges[k].size = store.BUFSIZE
          /\ store.BUFSIZE = IF store.warmed_up
                              THEN store.warmup_measurement_count ELSE 200)
    /\ [][ /\ ~(DOMAIN store.ranges \subseteq DOMAIN store'.ranges)
                => resizes' = resizes + 1
           /\ resizes' # resizes =>
                /\ resizes = 0
                /\ DOMAIN store'.ranges = BatchKeys(last_call'.batch)
                /\ \A k \in DOMAIN store'.ranges :
                      Len(Held(store', k)) <= CountKey(last_call'.batch, k) ]_vars

\* warmed, with a bucket made before the resize gone and one made after it
C15_Witness ==
    /\ store.warmed_up
    /\ calls > warm_call
    /\ DOMAIN store.ranges # {}
    /\ \E i \in DOMAIN calib_log :
          ~(BatchKeys(calib_log[i].batch) \subseteq DOMAIN store.ranges)

\* a call logged while calibrating held a measurement of the first bucket
\* ever ingested, taken more than one second after the first measurement
ElapsedIn(batch) ==
    \E i \in DOMAIN batch :
        /\ batch[i].hz_low = first_m[1].hz_low
        /\ batch[i].datetime - first_m[1].datetime > one_second

\* C18: once the reference bucket (the bucket of the first measurement ever
\* ingested, key 0 included) has been ingested more than one second after
\* epoch0 and a further non-empty call has returned, the store is warmed.
C18_WarmupCompletes ==
    (\E i, j \in DOMAIN calib_log :
        /\ i < j
        /\ ElapsedIn(calib_log[i].batch)
        /\ calib_log[j].batch # <<>>)
    => store.warmed_up

----------------------------------------------------------------------------
(* SpecAnalyze: analyze() on a warmed-up store *)

MaxBuckets == 7     \* buckets of the sweep
MaxPerBucket == 2   \* ring capacity after the warmup

\* bin widths of the sweep, in Hz
SweepWidths == {5000, 5000000}

\* the readings a bucket holds, oldest first, in dB
DbLists == {<<-60>>, <<-50>>, <<-60, -54>>}

\* a ring of the given capacity after the values of dbs were added
RECURSIVE RingOf(_, _, _, _)
RingOf(b, f, w, dbs) ==
    IF dbs = <<>> THEN b
    ELSE RingOf(add(b, Measurement(0, f, f + w, dbs[1])), f, w, Tail(dbs))

AnalyzeInit ==
    /\ \E w \in SweepWidths, present \in SUBSET (0..(MaxBuckets - 1)) :
        \E dbs \in [present -> DbLists] :
            store = Store([f \in { i * w : i \in present } |->
                             RingOf(ringbuf(MaxPerBucket), f, w, dbs[f \div w])],
                          MaxPerBucket, <<w>>, TRUE, MaxPerBucket, w, 0, FALSE)
    /\ skip_analysis \in BOOLEAN
    /\ HistInit
    /\ rb = ringbuf(1)
    /\ RingIdle
    /\ analysis = NoAnalysis
    /\ ListenIdle

\* Process(target=analyze, args=(store,)).start()
Analyze ==
    /\ analysis = NoAnalysis
    /\ is_warmed_up(store)
    /\ analysis' = analyze(store, skip_analysis)
    /\ UNCHANGED <<ringvars, storevars, histvars, listenvars>>

AnalyzeNext == Analyze

SpecAnalyze == AnalyzeInit /\ [][AnalyzeNext]_vars

----------------------------------------------------------------------------
(* Claims about analyze *)

\* the buckets of the snapshot that hold at least one measurement
BucketsWithData ==
    { f \in DOMAIN store.ranges : get_data_copy(store.ranges[f]) # <<>> }

\* the active buckets of the finished analysis, as a set
Active == { analysis.has_signal[i] : i \in DOMAIN analysis.has_signal }

\* low and high edge of the bucket with key f
Low(f) == f
High(f) == f + store.bucket_width[1]

\* an active bucket with no active bucket abutting it on either side
Isolated(f) ==
    /\ f \in Active
    /\ \A g \in Active \ {f} : High(g) # Low(f) /\ High(f) # Low(g)

\* 10 MHz in Hz
TenMHz == 10 * 1000 * 1000

\* C2: when exactly two buckets are active and their intervals abut,
\* analyze finds the single region from the low edge of the first to the high
\* edge of the second, and detects a drone when that is wider than the
\* bandwidth threshold.
C2_TwoAbuttingBucketsMerge ==
    (/\ analysis.outcome = "ok"
     /\ Cardinality(BucketsWithData) >= 4
     /\ Len(analysis.has_signal) = 2
     /\ High(analysis.has_signal[1]) = Low(analysis.has_signal[2]))
    =>
        LET lo == Low(analysis.has_signal[1])
            hi == High(analysis.has_signal[2])
        IN  /\ analysis.contiguous_regions = <<<<lo, hi>>>>
            /\ analysis.drone_detected = (hi - lo > BANDWIDTH_THRESHOLD)

\* C6 as amended: with fewer than three active buckets analyze finds no
\* region at all and no drone; with three or more, an active bucket with no
\* active neighbour is a region of its own unless it is the last active one.
C6_RegionsNeedThreeActive ==
    analysis.outcome = "ok" =>
        /\ Len(analysis.has_signal) < 3 =>
              /\ analysis.contiguous_regions = <<>>
              /\ analysis.drone_detected = FALSE
        /\ Len(analysis.has_signal) >= 3 =>
              \A i \in 1..(Len(analysis.has_signal) - 1) :
                  Isolated(analysis.has_signal[i]) =>
                      \E j \in DOMAIN analysis.contiguous_regions :
                          analysis.contiguous_regions[j]
                              = <<Low(analysis.has_signal[i]),
                                  High(analysis.has_signal[i])>>

\* exactly one bucket is above the squelch, among at least 4 with data
C6_Witness ==
    /\ analysis.outcome = "ok"
    /\ Len(analysis.has_signal) = 1

\* C6 as stated: no region is a single active bucket that has no active
\* neighbour, and with zero or one active bucket there is no region at all
C6_NoLoneBucketRegion ==
    analysis.outcome = "ok" =>
        /\ \A j \in DOMAIN analysis.contiguous_regions :
              ~ \E f \in Active :
                  /\ Isolated(f)
                  /\ analysis.contiguous_regions[j] = <<Low(f), High(f)>>
        /\ Len(analysis.has_signal) <= 1 =>
              /\ analysis.contiguous_regions = <<>>
              /\ analysis.drone_detected = FALSE

\* C7: analyze detects a drone exactly when some merged region is more than
\* 10,000,000 Hz wide, and the regions it keeps are exactly those.
C7_ThresholdIsTenMHz ==
    analysis.outcome = "ok" =>
        /\ analysis.drone_detected <=>
              \E j \in DOMAIN analysis.contiguous_regions :
                  analysis.contiguous_regions[j][2]
                      - analysis.contiguous_regions[j][1] > TenMHz
        /\ analysis.drone_regions
              = SelectRegions(analysis.contiguous_regions, TenMHz)

\* C8: with fewer than 4 buckets holding data, analyze ends with the failure
\* outcome InsufficientData, not with an exception that escapes it.
C8_InsufficientDataIsTyped ==
    (/\ analysis.outcome \notin {"pending", "skipped"}
     /\ Cardinality(BucketsWithData) < 4)
    => analysis.outcome = "InsufficientData"

\* the average strength of the bucket with key f, as analyze computes it
Average(f) ==
    LET ms == get_data_copy(store.ranges[f])
    IN  Rat(SumDb(ms), Len(ms))

\* at least 4 buckets hold data and all of them average the same strength
UniformSnapshot ==
    /\ Cardinality(BucketsWithData) >= 4
    /\ \A f, g \in BucketsWithData : RatEq(Average(f), Average(g))

\* C11: on a snapshot with at least 4 buckets holding data, all of the same
\* average strength v, analyze finds the noise floor v, no active bucket, no
\* region and no drone.
C11_UniformSnapshotIsQuiet ==
    (analysis.outcome \notin {"pending", "skipped"} /\ UniformSnapshot) =>
        /\ analysis.outcome = "ok"
        /\ \A f \in BucketsWithData : RatEq(analysis.noise_floor, Average(f))
        /\ analysis.has_signal = <<>>
        /\ analysis.contiguous_regions = <<>>
        /\ analysis.drone_regions = <<>>
        /\ analysis.drone_detected = FALSE

\* analyze has run on 6 buckets that all average -57 dB from two readings
C11_Witness ==
    /\ analysis.outcome = "ok"
    /\ UniformSnapshot
    /\ Cardinality(BucketsWithData) = 6
    /\ \A f \in BucketsWithData : Len(get_data_copy(store.ranges[f])) = 2

\* an active bucket that no active bucket abuts from below / from above
RunStart(f) == f \in Active /\ \A g \in Active : High(g) # Low(f)
RunEnd(f) == f \in Active /\ \A g \in Active : Low(g) # High(f)

\* the last bucket of the maximal run of abutting active buckets begun at f
EndOfRun(f) ==
    CHOOSE e \in Active :
        /\ RunEnd(e)
        /\ e >= f
        /\ \A e2 \in Active : (RunEnd(e2) /\ e2 >= f) => e <= e2

\* the maximal runs of abutting active buckets, ascending, each from the low
\* edge of its first bucket to the high edge of its last
MaximalRuns ==
    LET starts == SortedKeys({ f \in Active : RunStart(f) })
    IN  [i \in DOMAIN starts |-> <<Low(starts[i]), High(EndOfRun(starts[i]))>>]

\* C12: whenever the merge engages (more than two active buckets), the
\* regions analyze finds are exactly the maximal runs of abutting active
\* buckets, each ending at the high edge of its last bucket, the run of the
\* last active bucket included.
C12_RegionsAreMaximalRuns ==
    (analysis.outcome = "ok" /\ MergeEngages(analysis.has_signal)) =>
        analysis.contiguous_regions = MaximalRuns

\* C19: get_contiguous_regions never reads signal_ranges[i] or
\* signal_ranges[i+1] outside the list, whatever the active buckets are, and
\* both loops finish: no started analysis ends in IndexError, and the merge
\* appends at most one region per active bucket.
C19_MergeStaysInBounds ==
    analysis.outcome \notin {"pending", "skipped"} =>
        /\ analysis.exception # "IndexError"
        /\ Len(analysis.contiguous_regions) <= Len(analysis.has_signal)

\* the merge ran on four active buckets, the last three of them one run
\* that reaches the last active bucket
C19_Witness ==
    /\ analysis.outcome = "ok"
    /\ Len(analysis.has_signal) = 4
    /\ High(analysis.has_signal[1]) # Low(analysis.has_signal[2])
    /\ High(analysis.has_signal[2]) = Low(analysis.has_signal[3])
    /\ High(analysis.has_signal[3]) = Low(analysis.has_signal[4])

----------------------------------------------------------------------------
(* SpecListen: handle_input, statement by statement, and the process it   *)
(* starts.  The lines are those of one sweep: one bin width, timestamps    *)
(* that do not decrease, at least one bucket per line.                     *)

MaxLines == 4      \* lines read per behaviour

\* seconds of the lines' timestamps
ListenTimes == {0, 2, 3}

\* hz_bin_width of the sweep
ListenWidths == {1}

\* the low edges of the buckets of a line
ListenKeyLists == KeyLists \ {<<>>}

\* the analyze() process reading the parent's own store object
SharedStore == store

\* the store the started process works on: its own copy of the parent's,
\* taken by Process.start()
ChildStore == child.copy

\* if not last_datetime: last_datetime = hsl.datetime
FirstSeen(ld, t) == IF ld = <<>> THEN <<t>> ELSE ld

\* if hsl.datetime != last_datetime
Rollover(ld, t) == <<t>> # ld

StartsAnalysisOnEveryLine(ld, t, s) == is_warmed_up(s)

\* whether handle_input starts a process after the line with timestamp t
StartsAnalysis(ld, t, s) == Rollover(FirstSeen(ld, t), t) /\ is_warmed_up(s)

ListenInit ==
    /\ StoreInit
    /\ skip_analysis = FALSE
    /\ HistInit
    /\ rb = ringbuf(1)
    /\ RingIdle
    /\ analysis = NoAnalysis
    /\ ListenIdle

\* readline, HackSweepLine, to_measurements, and add_measurements up to the
\* test of the resize signal; inside the resize, up to tmpkeys
ReadLine(t, w, keys) ==
    LET batch == LineMeasurements(t, w, keys)
        s == PickWarmupBucket(NoteBucketWidth(store, batch), batch)
    IN
    /\ ingest.pc = "idle"
    /\ Len(launch_log) < MaxLines
    /\ t >= ingest.datetime
    /\ IF ResizeDue(s)
       THEN /\ store' = [s EXCEPT !.warmup_resize_ringbufs = FALSE,
                                  !.BUFSIZE = s.warmup_measurement_count]
            /\ ingest' = [pc |-> "delete", datetime |-> t,
                          tmpkeys |-> DOMAIN s.ranges, rest |-> batch]
       ELSE /\ store' = s
            /\ ingest' = [pc |-> "route", datetime |-> t,
                          tmpkeys |-> {}, rest |-> batch]
    /\ UNCHANGED <<ringvars, skip_analysis, histvars, analysis,
                   last_datetime, child, launch_log>>

\* del self._ranges[k], for one k of tmpkeys
DeleteKey ==
    /\ ingest.pc = "delete"
    /\ \E k \in ingest.tmpkeys :
          /\ store' = [store EXCEPT !.ranges =
                          [f \in DOMAIN store.ranges \ {k} |-> store.ranges[f]]]
          /\ ingest' = [ingest EXCEPT !.tmpkeys = @ \ {k}]
    /\ UNCHANGED <<ringvars, skip_analysis, histvars, analysis,
                   last_datetime, child, launch_log>>

\* self._warmed_up = True, after the last key is deleted
SetWarmed ==
    /\ ingest.pc = "delete"
    /\ ingest.tmpkeys = {}
    /\ store' = [store EXCEPT !.warmed_up = WarmedAfterResize]
    /\ ingest' = [ingest EXCEPT !.pc = "route"]
    /\ UNCHANGED <<ringvars, skip_analysis, histvars, analysis,
                   last_datetime, child, launch_log>>

\* one turn of "for m in measurements"
RouteOne ==
    /\ ingest.pc = "route"
    /\ ingest.rest # <<>>
    /\ store' = Route(WarmupStep(store, ingest.rest[1]), ingest.rest[1])
    /\ ingest' = [ingest EXCEPT !.rest = Tail(@)]
    /\ UNCHANGED <<ringvars, skip_analysis, histvars, analysis,
                   last_datetime, child, launch_log>>

\* add_measurements has returned: the rollover test, and
\* Process(target=analyze, args=(store,)).start()
Trigger ==
    LET t == ingest.datetime
        starts == StartsAnalysis(last_datetime, t, store)
    IN
    /\ ingest.pc = "route"
    /\ ingest.rest = <<>>
    /\ last_datetime' = <<t>>
    /\ ingest' = [ingest EXCEPT !.pc = "idle"]
    /\ launch_log' = Append(launch_log,
                            [datetime |-> t, warmed |-> is_warmed_up(store),
                             started |-> IF starts THEN 1 ELSE 0])
    /\ child' = IF starts /\ child.pc \in {"none", "done"}
                THEN [pc |-> "start", line |-> Len(launch_log) + 1,
                      copy |-> store, keys |-> {}, size |-> 0,
                      result |-> EmptyMap, outcome |-> ""]
                ELSE child
    /\ UNCHANGED <<ringvars, storevars, histvars, analysis>>

\* in the process: get_measurements_copy begins "for k in self._ranges.keys()"
ChildStart ==
    /\ child.pc = "start"
    /\ child' = [child EXCEPT !.pc = "copy",
                              !.keys = DOMAIN ChildStore.ranges,
                              !.size = Cardinality(DOMAIN ChildStore.ranges)]
    /\ UNCHANGED <<ringvars, storevars, histvars, analysis,
                   last_datetime, ingest, launch_log>>

\* in the process: the loop takes its next key k and copies the ring buffer;
\* a dict whose size has changed since the loop began ends it in RuntimeError
ChildCopy ==
    /\ child.pc = "copy"
    /\ child.keys # {}
    /\ IF Cardinality(DOMAIN ChildStore.ranges) # child.size
       THEN child' = [child EXCEPT !.pc = "done", !.outcome = "RuntimeError"]
       ELSE \E k \in child.keys :
               child' = [child EXCEPT
                   !.keys = @ \ {k},
                   !.result = IF k \in DOMAIN ChildStore.ranges
                              THEN [f \in DOMAIN child.result \cup {k} |->
                                      IF f = k
                                      THEN get_data_copy(ChildStore.ranges[k])
                                      ELSE child.result[f]]
                              ELSE @]
    /\ UNCHANGED <<ringvars, storevars, histvars, analysis,
                   last_datetime, ingest, launch_log>>

\* in the process: the loop is over, and the rest of analyze runs
ChildFinish ==
    /\ child.pc = "copy"
    /\ child.keys = {}
    /\ IF Cardinality(DOMAIN ChildStore.ranges) # child.size
       THEN /\ child' = [child EXCEPT !.pc = "done", !.outcome = "RuntimeError"]
            /\ analysis' = Raised("RuntimeError")
       ELSE /\ child' = [child EXCEPT !.pc = "done", !.outcome = "ok"]
            /\ analysis' = analyze(ChildStore, skip_analysis)
    /\ UNCHANGED <<ringvars, storevars, histvars,
                   last_datetime, ingest, launch_log>>

ListenNext ==
    \/ \E t \in ListenTimes, w \in ListenWidths, keys \in ListenKeyLists :
          ReadLine(t, w, keys)
    \/ DeleteKey
    \/ SetWarmed
    \/ RouteOne
    \/ Trigger
    \/ ChildStart
    \/ ChildCopy
    \/ ChildFinish

SpecListen == ListenInit /\ [][ListenNext]_vars

----------------------------------------------------------------------------
(* Claims about handle_input and the process it starts *)

Changed(i) == i > 1 /\ launch_log[i].datetime # launch_log[i - 1].datetime

\* C17 as amended: a line starts exactly one analysis when its timestamp
\* differs from that of the line before it and the store is warmed once the
\* line's batch is ingested; any other line starts none.
C17_OneAnalysisPerWarmedRollover ==
    \A i \in DOMAIN launch_log :
        launch_log[i].started
            = IF Changed(i) /\ launch_log[i].warmed THEN 1 ELSE 0

\* a rollover while calibrating, a rollover once warmed, and a line with the
\* timestamp of the line before it once warmed
C17_Witness ==
    /\ \E i \in DOMAIN launch_log : Changed(i) /\ ~launch_log[i].warmed
    /\ \E i \in DOMAIN launch_log : Changed(i) /\ launch_log[i].warmed
    /\ \E i \in DOMAIN launch_log :
          i > 1 /\ ~Changed(i) /\ launch_log[i].warmed

\* C17 as stated: a line starts exactly one analysis when its timestamp
\* differs from that of the line before it, and none when it is the same.
C17_OneAnalysisPerRollover ==
    \A i \in DOMAIN launch_log :
        launch_log[i].started = IF Changed(i) THEN 1 ELSE 0

====
